---- MODULE Spec2Model ----
(***************************************************************************)
(* Node draining and pod eviction engine of the preemptible killer         *)
(* (kubernetes_client.go): DrainNode / DrainKubeDNSFromNode, evictPods,    *)
(* evictPod and the two pod filters, as one state machine.                 *)
(*                                                                         *)
(* Goroutines of one drain session:                                        *)
(*   main      the body of DrainNode / DrainKubeDNSFromNode       (pc)     *)
(*   evictor   go func() { evictPods(...) }                 (gpc, epc)     *)
(*   poller    go func() { for { list; filter; ... } }           (ppc)     *)
(*   task[i]   go func(i) { evictPod(pods[i]) } of evictPods  (taskPc)     *)
(* The cluster (API server) is the environment: it owns the set of pods    *)
(* still present and answers List and Evict calls.                         *)
(***************************************************************************)
EXTENDS Integers, Sequences, FiniteSets, TLC

----------------------------------------------------------------------------
(* Bounds of the model *)

\* pods known to the API server in a drain session
MaxPods == 2
\* owner references one pod carries
MaxOwners == 2
\* too-many-requests answers the API server gives in one run
MaxThrottle == 2
\* length of the pod list handed to evictPods when it is run on its own
MaxListLen == 11
\* other-error answers the API server gives when evictPods is run on its own
MaxFatal == 1

----------------------------------------------------------------------------
(* Program constants *)

podsPerBatch == 10
BackoffSeconds == 5
\* capacity of make(chan error): an unbuffered channel
errChCap == 0

OwnerKinds == {"DaemonSet", "ReplicaSet"}
NodeName == "node"
OtherNode == "other"

Nil == [kind |-> "nil", pos |-> 0, wrapped |-> FALSE]
\* the error the Evict call of the task at list position pos returned
EvictErr(pos) == [kind |-> "evict", pos |-> pos, wrapped |-> FALSE]
ListErr == [kind |-> "list", pos |-> 0, wrapped |-> FALSE]
\* fmt.Errorf("error evicting pods, last error was: %s", thisErr.Error())
WrapErr(e) == [e EXCEPT !.wrapped = TRUE]

Min(a, b) == IF a < b THEN a ELSE b
CeilDiv(a, b) == (a + b - 1) \div b

----------------------------------------------------------------------------
(* Pure functions *)

\* OwnerMatches with the pod appended at most once, however many of its
\* owner references are of another kind
OwnerMatches_AtMostOnce(owners, kind) ==
    IF \E k \in 1..Len(owners) : owners[k] # kind THEN 1 ELSE 0

RECURSIVE OwnerMatches(_, _)
\* the inner loop of filterOutPodByOwnerReferenceKind for one pod p with
\* owner references owners: p is appended once per reference of another kind
OwnerMatches(owners, kind) ==
    IF owners = <<>> THEN 0
    ELSE (IF Head(owners) # kind THEN 1 ELSE 0) + OwnerMatches(Tail(owners), kind)

Repeat(x, n) == [i \in 1..n |-> x]

RECURSIVE filterOutPodByOwnerReferenceKind(_, _, _)
\* podList: sequence of pod ids; spec: pod id -> pod record
filterOutPodByOwnerReferenceKind(podList, spec, kind) ==
    IF podList = <<>> THEN <<>>
    ELSE Repeat(Head(podList), OwnerMatches(spec[Head(podList)].owners, kind))
         \o filterOutPodByOwnerReferenceKind(Tail(podList), spec, kind)

RECURSIVE filterOutPodByNode(_, _, _)
filterOutPodByNode(podList, spec, nodeName) ==
    IF podList = <<>> THEN <<>>
    ELSE (IF spec[Head(podList)].nodeName = nodeName THEN <<Head(podList)>> ELSE <<>>)
         \o filterOutPodByNode(Tail(podList), spec, nodeName)

----------------------------------------------------------------------------
(* State *)

VARIABLES
    \* the cluster (environment)
    variant,            \* "general" (DrainNode) or "kubedns" (DrainKubeDNSFromNode)
    podSpec,            \* pod id -> [owners, nodeName, namespace, kubeDNS, pdb]
    present,            \* ids of the pods the API server still has
    nsTerminating,      \* the pods' namespace is being deleted
    throttleCount,      \* too-many-requests answers given so far
    fatalCount,         \* other-error answers given so far
    \* main goroutine of the drain call
    pc, resolution, result, ctxDone,
    pods,               \* filteredPodList, the argument of evictPods
    stopEvicting,       \* number of close(stopEvicting) executed
    stopPolling,        \* number of close(stopPolling) executed
    sessErrCh,          \* buffer of DrainNode's errCh
    gpc,                \* goroutine that calls evictPods
    \* polling goroutine
    ppc, pollSeen,
    pollOk,             \* the List call of the current poll iteration succeeded
    \* evictPods
    epc, numPodsLeft, podsProcessedSoFar, numPodsThisBatch, lastErr,
    errCh,              \* buffer of evictPods' errCh
    wg,                 \* sync.WaitGroup counter
    batchNo,            \* batches dispatched so far
    stopChs,            \* list position -> number of close(stopChs[i]) executed
    \* evictPod tasks, by list position
    taskPc, taskBatch, taskOutcome, calls, slept,
    taskRet,            \* list position -> the error evictPod returned
    answers,            \* history: the answers each task's Evict calls received
    \* history: a task had received an other-error answer when main returned
    fatalAtReturn

worldVars == <<variant, podSpec, present, nsTerminating, throttleCount, fatalCount>>
mainVars == <<pc, resolution, result, ctxDone, pods, stopEvicting, stopPolling,
              sessErrCh, gpc, fatalAtReturn>>
pollVars == <<ppc, pollSeen, pollOk>>
evictVars == <<epc, numPodsLeft, podsProcessedSoFar, numPodsThisBatch, lastErr,
               errCh, wg, batchNo, stopChs>>
taskVars == <<taskPc, taskBatch, taskOutcome, calls, slept, taskRet, answers>>
vars == <<worldVars, mainVars, pollVars, evictVars, taskVars>>

----------------------------------------------------------------------------
(* The cluster *)

OwnerChoices == UNION {[1..k -> OwnerKinds] : k \in 0..MaxOwners}

\* pdb: the pod is covered by a PodDisruptionBudget, so that the API server
\* may answer its eviction with too-many-requests.
\* Pods a DrainNode session can meet: workload pods on the node with any
\* owner references, and a kube-dns pod of kube-system on the node
GeneralShapes ==
    [owners : OwnerChoices, nodeName : {NodeName}, namespace : {"default"},
     kubeDNS : {FALSE}, pdb : BOOLEAN]
    \cup [owners : {<<"ReplicaSet">>}, nodeName : {NodeName},
          namespace : {"kube-system"}, kubeDNS : {TRUE}, pdb : {TRUE}]

\* the pods every node has: a ReplicaSet's pod and a DaemonSet's pod
CommonShapes ==
    [owners : {<<"ReplicaSet">>, <<"DaemonSet">>}, nodeName : {NodeName},
     namespace : {"default"}, kubeDNS : {FALSE}, pdb : {FALSE}]

\* pods a DrainKubeDNSFromNode session can meet: kube-dns pods on this node
\* and on another one, and a workload pod on the node
KubeDNSShapes ==
    [owners : {<<"ReplicaSet">>}, nodeName : {NodeName, OtherNode},
     namespace : {"kube-system"}, kubeDNS : {TRUE}, pdb : BOOLEAN]
    \cup [owners : {<<"ReplicaSet">>}, nodeName : {NodeName},
          namespace : {"default"}, kubeDNS : {FALSE}, pdb : {FALSE}]

\* further kube-dns pods, on this node or on another one
CommonDNSShapes ==
    [owners : {<<"ReplicaSet">>}, nodeName : {NodeName, OtherNode},
     namespace : {"kube-system"}, kubeDNS : {TRUE}, pdb : {FALSE}]

Ids(n) == [i \in 1..n |-> i]

\* FieldSelector "spec.nodeName=<node>,metadata.namespace!=kube-system"
FieldSelected(p) ==
    podSpec[p].nodeName = NodeName /\ podSpec[p].namespace # "kube-system"
\* Pods("kube-system").List with LabelSelector "k8s-app=kube-dns"
LabelSelected(p) ==
    podSpec[p].namespace = "kube-system" /\ podSpec[p].kubeDNS

StillPresent(p) == p \in present

\* the List call of the session's variant, answered by the API server
ListPods ==
    IF variant = "general"
    THEN SelectSeq(SelectSeq(Ids(Len(podSpec)), StillPresent), FieldSelected)
    ELSE SelectSeq(SelectSeq(Ids(Len(podSpec)), StillPresent), LabelSelected)

\* the filter the session's variant applies to a listing
FilterPods(podList) ==
    IF variant = "general"
    THEN filterOutPodByOwnerReferenceKind(podList, podSpec, "DaemonSet")
    ELSE filterOutPodByNode(podList, podSpec, NodeName)

\* answers the API server can give to Evict for pod p
Responses(p) ==
    (IF p \notin present THEN {"notfound"}
     ELSE IF nsTerminating THEN {"terminating"}
     ELSE {"ok"} \cup (IF podSpec[p].pdb /\ throttleCount < MaxThrottle
                       THEN {"throttled"} ELSE {}))
    \cup (IF fatalCount < MaxFatal THEN {"fatal"} ELSE {})

Positions == 1..Len(pods)
NoTasks(n) == [i \in 1..n |-> "none"]
Zeros(n) == [i \in 1..n |-> 0]

----------------------------------------------------------------------------
(* Initial states *)

\* up to MaxPods pods: the first of any shape, the others of the shapes in rest
Worlds(shapes, rest) ==
    UNION {{w \in [1..n -> shapes] : \A i \in 2..n : w[i] \in rest} : n \in 0..MaxPods}

InitEvictPods(list) ==
    /\ pods = list
    /\ numPodsLeft = Len(list)
    /\ podsProcessedSoFar = 0
    /\ numPodsThisBatch = 0
    /\ lastErr = Nil
    /\ errCh = <<>>
    /\ wg = 0
    /\ batchNo = 0
    /\ stopChs = Zeros(Len(list))
    /\ taskPc = NoTasks(Len(list))
    /\ taskBatch = Zeros(Len(list))
    /\ taskOutcome = NoTasks(Len(list))
    /\ taskRet = [i \in 1..Len(list) |-> Nil]
    /\ calls = Zeros(Len(list))
    /\ slept = Zeros(Len(list))
    /\ answers = [i \in 1..Len(list) |-> <<>>]

\* a drain call is about to start
Init ==
    /\ variant \in {"general", "kubedns"}
    /\ podSpec \in (IF variant = "general" THEN Worlds(GeneralShapes, CommonShapes)
                     ELSE Worlds(KubeDNSShapes, CommonDNSShapes))
    /\ present = DOMAIN podSpec
    /\ nsTerminating \in BOOLEAN
    /\ throttleCount = 0
    /\ fatalCount = 0
    /\ pc = "start"
    /\ resolution = "none"
    /\ result = Nil
    /\ ctxDone = FALSE
    /\ stopEvicting = 0
    /\ stopPolling = 0
    /\ sessErrCh = <<>>
    /\ gpc = "none"
    /\ ppc = "none"
    /\ pollSeen = <<>>
    /\ pollOk = FALSE
    /\ epc = "idle"
    /\ InitEvictPods(<<>>)
    /\ fatalAtReturn = FALSE

----------------------------------------------------------------------------
(* DrainNode: the main goroutine and the goroutine that calls evictPods *)

\* len(ch) of a channel whose buffer is buf
ChanLen(buf) == Len(buf)

\* the deferred function of the drain call: if len(errCh) > 0 { err = <-errCh }
DeferredErr(err) == IF ChanLen(sessErrCh) > 0 THEN Head(sessErrCh) ELSE err
DeferredRecv == IF ChanLen(sessErrCh) > 0 THEN Tail(sessErrCh) ELSE sessErrCh

FatalSeen == \E i \in Positions : taskOutcome[i] = "fatal"

\* return of the drain call with the named result err
Return(how, err) ==
    /\ pc' = "returned"
    /\ resolution' = how
    /\ result' = DeferredErr(err)
    /\ sessErrCh' = DeferredRecv
    /\ fatalAtReturn' = FatalSeen

\* the initial List call fails: return err before anything is started
MainListFails ==
    /\ pc = "start"
    /\ pc' = "returned"
    /\ resolution' = "listError"
    /\ result' = ListErr
    /\ UNCHANGED <<worldVars, ctxDone, pods, stopEvicting, stopPolling, sessErrCh,
                   gpc, fatalAtReturn, pollVars, evictVars, taskVars>>

\* the initial List call succeeds: filter, start the evicting goroutine and
\* the polling goroutine, and reach the select
MainList ==
    /\ pc = "start"
    /\ pc' = "select"
    /\ gpc' = "running"
    /\ epc' = "loop"
    /\ ppc' = "list"
    /\ LET list == FilterPods(ListPods) IN
        /\ pods' = list
        /\ numPodsLeft' = Len(list)
        /\ stopChs' = Zeros(Len(list))
        /\ taskPc' = NoTasks(Len(list))
        /\ taskBatch' = Zeros(Len(list))
        /\ taskOutcome' = NoTasks(Len(list))
        /\ taskRet' = [i \in 1..Len(list) |-> Nil]
        /\ calls' = Zeros(Len(list))
        /\ slept' = Zeros(Len(list))
        /\ answers' = [i \in 1..Len(list) |-> <<>>]
    /\ UNCHANGED <<worldVars, resolution, result, ctxDone, stopEvicting, stopPolling,
                   sessErrCh, fatalAtReturn, pollSeen, pollOk, podsProcessedSoFar,
                   numPodsThisBatch, lastErr, errCh, wg, batchNo>>

\* case <-doneDraining: the poller's send and this receive meet
MainDrained ==
    /\ pc = "select"
    /\ ppc = "send"
    /\ ppc' = "exit"
    /\ Return("drained", Nil)
    /\ UNCHANGED <<worldVars, ctxDone, pods, stopEvicting, stopPolling, gpc,
                   pollSeen, pollOk, evictVars, taskVars>>

\* MainTimeout with both closes done and the return forgotten: the select is
\* entered again
MainTimeout_NoReturn ==
    /\ pc = "select"
    /\ stopPolling' = stopPolling + 1
    /\ stopEvicting' = stopEvicting + 1
    /\ resolution' = "timeout"
    /\ UNCHANGED <<worldVars, pc, result, ctxDone, pods, sessErrCh, gpc,
                   fatalAtReturn, pollVars, evictVars, taskVars>>

\* case <-time.After(drainTimeout): close(stopPolling)
MainTimeout ==
    /\ pc = "select"
    /\ stopPolling' = stopPolling + 1
    /\ pc' = "closeEvicting"
    /\ resolution' = "timeout"
    /\ UNCHANGED <<worldVars, result, ctxDone, pods, stopEvicting, sessErrCh, gpc,
                   fatalAtReturn, pollVars, evictVars, taskVars>>

\* case <-ctx.Done(): close(stopPolling)
MainCancelled ==
    /\ pc = "select"
    /\ ctxDone
    /\ stopPolling' = stopPolling + 1
    /\ pc' = "closeEvicting"
    /\ resolution' = "cancelled"
    /\ UNCHANGED <<worldVars, result, ctxDone, pods, stopEvicting, sessErrCh, gpc,
                   fatalAtReturn, pollVars, evictVars, taskVars>>

\* MainCloseEvicting with the stop reported to the caller as an error
MainCloseEvicting_ReturnsErr ==
    /\ pc = "closeEvicting"
    /\ stopEvicting' = stopEvicting + 1
    /\ Return(resolution, [kind |-> "incomplete", pos |-> 0, wrapped |-> FALSE])
    /\ UNCHANGED <<worldVars, ctxDone, pods, stopPolling, gpc, pollVars, evictVars,
                   taskVars>>

\* MainCloseEvicting with a wait for the evicting goroutine before the return
MainCloseEvicting_WaitsForEvictor ==
    /\ pc = "closeEvicting"
    /\ gpc = "exit"
    /\ stopEvicting' = stopEvicting + 1
    /\ Return(resolution, Nil)
    /\ UNCHANGED <<worldVars, ctxDone, pods, stopPolling, gpc, pollVars, evictVars,
                   taskVars>>

\* close(stopEvicting); return
MainCloseEvicting ==
    /\ pc = "closeEvicting"
    /\ stopEvicting' = stopEvicting + 1
    /\ Return(resolution, Nil)
    /\ UNCHANGED <<worldVars, ctxDone, pods, stopPolling, gpc, pollVars, evictVars,
                   taskVars>>

\* the caller cancels ctx
CtxCancel ==
    /\ pc \in {"start", "select"}
    /\ ~ctxDone
    /\ ctxDone' = TRUE
    /\ UNCHANGED <<worldVars, pc, resolution, result, pods, stopEvicting, stopPolling,
                   sessErrCh, gpc, fatalAtReturn, pollVars, evictVars, taskVars>>

\* go func() { if err := c.evictPods(...); err != nil { errCh <- err } }():
\* evictPods has returned lastErr; the send blocks while the buffer is full
EvictGoFinish ==
    /\ gpc = "running"
    /\ epc = "returned"
    /\ IF lastErr = Nil
       THEN gpc' = "exit" /\ UNCHANGED sessErrCh
       ELSE IF Len(sessErrCh) < errChCap
       THEN gpc' = "exit" /\ sessErrCh' = Append(sessErrCh, lastErr)
       ELSE gpc' = "sendErr" /\ UNCHANGED sessErrCh
    /\ UNCHANGED <<worldVars, pc, resolution, result, ctxDone, pods, stopEvicting,
                   stopPolling, fatalAtReturn, pollVars, evictVars, taskVars>>

----------------------------------------------------------------------------
(* DrainNode: the polling goroutine *)

\* PollListFails with the continue left out and the missing listing counted
\* as zero pods pending
PollListFails_TakenAsEmpty ==
    /\ ppc = "list"
    /\ ppc' = "send"
    /\ pollOk' = FALSE
    /\ pollSeen' = <<>>
    /\ UNCHANGED <<worldVars, mainVars, evictVars, taskVars>>

\* the List call of one iteration fails: log the error and go to sleep
PollListFails ==
    /\ ppc = "list"
    /\ ppc' = "sleepErr"
    /\ pollOk' = FALSE
    /\ UNCHANGED <<worldVars, mainVars, pollSeen, evictVars, taskVars>>

\* time.Sleep(sleepDuration); continue
PollSleepErr ==
    /\ ppc = "sleepErr"
    /\ ppc' = "list"
    /\ UNCHANGED <<worldVars, mainVars, pollSeen, pollOk, evictVars, taskVars>>

\* PollList with podsPending counted on the unfiltered listing
PollList_Unfiltered ==
    /\ ppc = "list"
    /\ pollOk' = TRUE
    /\ IF Len(ListPods) = 0
       THEN ppc' = "send" /\ pollSeen' = ListPods
       ELSE ppc' = "check" /\ UNCHANGED pollSeen
    /\ UNCHANGED <<worldVars, mainVars, evictVars, taskVars>>

\* PollList with the drained signal left out: on zero pending pods the
\* goroutine just returns
PollList_NoSignal ==
    /\ ppc = "list"
    /\ pollOk' = TRUE
    /\ IF Len(FilterPods(ListPods)) = 0
       THEN ppc' = "exit" /\ pollSeen' = ListPods
       ELSE ppc' = "check" /\ UNCHANGED pollSeen
    /\ UNCHANGED <<worldVars, mainVars, evictVars, taskVars>>

\* the List call succeeds: filter and count
PollList ==
    /\ ppc = "list"
    /\ pollOk' = TRUE
    /\ IF Len(FilterPods(ListPods)) = 0
       THEN ppc' = "send" /\ pollSeen' = ListPods
       ELSE ppc' = "check" /\ UNCHANGED pollSeen
    /\ UNCHANGED <<worldVars, mainVars, evictVars, taskVars>>

\* select { case <-stopPolling: return; default: time.Sleep(sleepDuration) }
PollCheckStop ==
    /\ ppc = "check"
    /\ ppc' = IF stopPolling > 0 THEN "exit" ELSE "list"
    /\ pollOk' = FALSE
    /\ UNCHANGED <<worldVars, mainVars, pollSeen, evictVars, taskVars>>

----------------------------------------------------------------------------
(* evictPods *)

\* the deferred function of evictPods:
\* if len(errCh) > 0 { lastErr = fmt.Errorf(..., (<-errCh).Error()) }
EvictPodsResult == IF ChanLen(errCh) > 0 THEN WrapErr(Head(errCh)) ELSE Nil
EvictPodsRecv == IF ChanLen(errCh) > 0 THEN Tail(errCh) ELSE errCh

\* list positions of pods[podsProcessedSoFar : podsProcessedSoFar+n]
Slice(from, n) == (from + 1)..(from + n)
ThisBatch == Slice(podsProcessedSoFar, numPodsThisBatch)

\* loop head with numPodsLeft > 0: slice the batch, make its stop channels,
\* wg.Add(1) and start a goroutine for each of its pods
EvictPodsDispatch ==
    /\ epc = "loop"
    /\ numPodsLeft > 0
    /\ LET n == Min(numPodsLeft, podsPerBatch)
           batch == Slice(podsProcessedSoFar, n) IN
        /\ numPodsThisBatch' = n
        /\ wg' = wg + n
        /\ batchNo' = batchNo + 1
        /\ stopChs' = [i \in Positions |-> IF i \in batch THEN 0 ELSE stopChs[i]]
        /\ taskPc' = [i \in Positions |-> IF i \in batch THEN "run" ELSE taskPc[i]]
        /\ taskBatch' = [i \in Positions |->
                            IF i \in batch THEN batchNo + 1 ELSE taskBatch[i]]
    /\ epc' = "select"
    /\ UNCHANGED <<worldVars, mainVars, pollVars, numPodsLeft, podsProcessedSoFar,
                   lastErr, errCh, taskOutcome, calls, slept, taskRet, answers>>

\* select { case <-stop: close every stopChs[i]; return   default: ... }
EvictPodsSelect ==
    /\ epc = "select"
    /\ IF stopEvicting > 0
       THEN /\ stopChs' = [i \in Positions |->
                              IF i \in ThisBatch THEN stopChs[i] + 1 ELSE stopChs[i]]
            /\ epc' = "returned"
            /\ lastErr' = EvictPodsResult
            /\ errCh' = EvictPodsRecv
       ELSE /\ epc' = "wait"
            /\ UNCHANGED <<stopChs, lastErr, errCh>>
    /\ UNCHANGED <<worldVars, mainVars, pollVars, numPodsLeft, podsProcessedSoFar,
                   numPodsThisBatch, wg, batchNo, taskVars>>

\* EvictPodsWait without the barrier: the loop goes on while tasks still run
EvictPodsWait_NoBarrier ==
    /\ epc = "wait"
    /\ numPodsLeft' = numPodsLeft - numPodsThisBatch
    /\ podsProcessedSoFar' = podsProcessedSoFar + numPodsThisBatch
    /\ epc' = "loop"
    /\ UNCHANGED <<worldVars, mainVars, pollVars, numPodsThisBatch, lastErr, errCh,
                   wg, batchNo, stopChs, taskVars>>

\* default: wg.Wait(); numPodsLeft -= n; podsProcessedSoFar += n
EvictPodsWait ==
    /\ epc = "wait"
    /\ wg = 0
    /\ numPodsLeft' = numPodsLeft - numPodsThisBatch
    /\ podsProcessedSoFar' = podsProcessedSoFar + numPodsThisBatch
    /\ epc' = "loop"
    /\ UNCHANGED <<worldVars, mainVars, pollVars, numPodsThisBatch, lastErr, errCh,
                   wg, batchNo, stopChs, taskVars>>

\* loop head with numPodsLeft = 0: return
EvictPodsReturn ==
    /\ epc = "loop"
    /\ numPodsLeft = 0
    /\ epc' = "returned"
    /\ lastErr' = EvictPodsResult
    /\ errCh' = EvictPodsRecv
    /\ UNCHANGED <<worldVars, mainVars, pollVars, numPodsLeft, podsProcessedSoFar,
                   numPodsThisBatch, wg, batchNo, stopChs, taskVars>>

----------------------------------------------------------------------------
(* evictPod, run by the goroutine of list position pos *)

\* evictPod returned nil: wg.Done()
Finish(pos, outcome) ==
    /\ taskPc' = [taskPc EXCEPT ![pos] = "done"]
    /\ taskOutcome' = [taskOutcome EXCEPT ![pos] = outcome]
    /\ taskRet' = [taskRet EXCEPT ![pos] = Nil]
    /\ wg' = wg - 1
    /\ UNCHANGED errCh

\* OnThrottled with a break in place of the retry: evictPod returns nil
OnThrottled_NoRetry(pos) == Finish(pos, "aborted")

\* errors.IsTooManyRequests(err): time.Sleep(5 * time.Second) comes next
OnThrottled(pos) ==
    /\ taskPc' = [taskPc EXCEPT ![pos] = "backoff"]
    /\ UNCHANGED <<taskOutcome, taskRet, wg, errCh>>

\* OnFatal with the other error handled like too-many-requests: the loop
\* sleeps and calls Evict again
OnFatal_Retry(pos) == OnThrottled(pos)

\* return err; the goroutine logs it and sends it: errCh <- err; wg.Done().
\* The send blocks while the buffer of errCh is full.
OnFatal(pos) ==
    /\ taskOutcome' = [taskOutcome EXCEPT ![pos] = "fatal"]
    /\ taskRet' = [taskRet EXCEPT ![pos] = EvictErr(pos)]
    /\ IF Len(errCh) < errChCap
       THEN /\ errCh' = Append(errCh, EvictErr(pos))
            /\ taskPc' = [taskPc EXCEPT ![pos] = "done"]
            /\ wg' = wg - 1
       ELSE /\ taskPc' = [taskPc EXCEPT ![pos] = "sendErr"]
            /\ UNCHANGED <<errCh, wg>>

\* one Evict call and the branch its answer selects
TaskEvict(pos) ==
    /\ taskPc[pos] = "run"
    /\ calls' = [calls EXCEPT ![pos] = calls[pos] + 1]
    /\ \E r \in Responses(pods[pos]) :
        /\ answers' = [answers EXCEPT ![pos] = Append(answers[pos], r)]
        /\ present' = IF r = "ok" THEN present \ {pods[pos]} ELSE present
        /\ throttleCount' = IF r = "throttled" THEN throttleCount + 1 ELSE throttleCount
        /\ fatalCount' = IF r = "fatal" THEN fatalCount + 1 ELSE fatalCount
        /\ CASE r = "ok" -> Finish(pos, "evicted")
             [] r = "notfound" -> Finish(pos, "gone")
             [] r = "terminating" -> Finish(pos, "blocked")
             [] r = "throttled" -> OnThrottled(pos)
             [] r = "fatal" -> OnFatal(pos)
    /\ UNCHANGED <<variant, podSpec, nsTerminating, mainVars, pollVars, epc,
                   numPodsLeft, podsProcessedSoFar, numPodsThisBatch, lastErr, batchNo,
                   stopChs, taskBatch, slept>>

\* the backoff sleep is over; select { case <-stop: return nil; default: }
TaskBackoff(pos) ==
    /\ taskPc[pos] = "backoff"
    /\ slept' = [slept EXCEPT ![pos] = slept[pos] + BackoffSeconds]
    /\ IF stopChs[pos] > 0
       THEN Finish(pos, "aborted")
       ELSE /\ taskPc' = [taskPc EXCEPT ![pos] = "run"]
            /\ UNCHANGED <<taskOutcome, taskRet, wg, errCh>>
    /\ UNCHANGED <<worldVars, mainVars, pollVars, epc, numPodsLeft, podsProcessedSoFar,
                   numPodsThisBatch, lastErr, batchNo, stopChs, taskBatch, calls,
                   answers>>

----------------------------------------------------------------------------
(* DrainKubeDNSFromNode: its main goroutine, the goroutine that calls
   evictPods and its polling goroutine *)

\* Pods("kube-system").List with the label selector, answered by the API server
DNSListPods == SelectSeq(SelectSeq(Ids(Len(podSpec)), StillPresent), LabelSelected)

\* the deferred function: if len(errCh) > 0 { err = <-errCh }, and the return
DNSReturn(how, err) ==
    /\ pc' = "returned"
    /\ resolution' = how
    /\ result' = (IF ChanLen(sessErrCh) > 0 THEN Head(sessErrCh) ELSE err)
    /\ sessErrCh' = (IF ChanLen(sessErrCh) > 0 THEN Tail(sessErrCh) ELSE sessErrCh)
    /\ fatalAtReturn' = FatalSeen

\* the initial List call fails: return
DNSListFails ==
    /\ pc = "start"
    /\ pc' = "returned"
    /\ resolution' = "listError"
    /\ result' = ListErr
    /\ UNCHANGED <<worldVars, ctxDone, pods, stopEvicting, stopPolling, sessErrCh,
                   gpc, fatalAtReturn, pollVars, evictVars, taskVars>>

\* the initial List call succeeds: filterOutPodByNode, go evictPods, go poll
DNSList ==
    /\ pc = "start"
    /\ pc' = "select"
    /\ gpc' = "running"
    /\ epc' = "loop"
    /\ ppc' = "list"
    /\ LET list == filterOutPodByNode(DNSListPods, podSpec, NodeName) IN
        /\ pods' = list
        /\ numPodsLeft' = Len(list)
        /\ stopChs' = Zeros(Len(list))
        /\ taskPc' = NoTasks(Len(list))
        /\ taskBatch' = Zeros(Len(list))
        /\ taskOutcome' = NoTasks(Len(list))
        /\ taskRet' = [i \in 1..Len(list) |-> Nil]
        /\ calls' = Zeros(Len(list))
        /\ slept' = Zeros(Len(list))
        /\ answers' = [i \in 1..Len(list) |-> <<>>]
    /\ UNCHANGED <<worldVars, resolution, result, ctxDone, stopEvicting, stopPolling,
                   sessErrCh, fatalAtReturn, pollSeen, pollOk, podsProcessedSoFar,
                   numPodsThisBatch, lastErr, errCh, wg, batchNo>>

\* case <-doneDraining
DNSDrained ==
    /\ pc = "select"
    /\ ppc = "send"
    /\ ppc' = "exit"
    /\ DNSReturn("drained", Nil)
    /\ UNCHANGED <<worldVars, ctxDone, pods, stopEvicting, stopPolling, gpc,
                   pollSeen, pollOk, evictVars, taskVars>>

\* case <-time.After(drainTimeout): close(stopPolling)
DNSTimeout ==
    /\ pc = "select"
    /\ stopPolling' = stopPolling + 1
    /\ pc' = "closeEvicting"
    /\ resolution' = "timeout"
    /\ UNCHANGED <<worldVars, result, ctxDone, pods, stopEvicting, sessErrCh, gpc,
                   fatalAtReturn, pollVars, evictVars, taskVars>>

\* case <-ctx.Done(): close(stopPolling)
DNSCancelled ==
    /\ pc = "select"
    /\ ctxDone
    /\ stopPolling' = stopPolling + 1
    /\ pc' = "closeEvicting"
    /\ resolution' = "cancelled"
    /\ UNCHANGED <<worldVars, result, ctxDone, pods, stopEvicting, sessErrCh, gpc,
                   fatalAtReturn, pollVars, evictVars, taskVars>>

\* DNSCloseEvicting with close(stopEvicting) left out: evictPods is never
\* told to stop
DNSCloseEvicting_NoStop ==
    /\ pc = "closeEvicting"
    /\ DNSReturn(resolution, Nil)
    /\ UNCHANGED <<worldVars, ctxDone, pods, stopEvicting, stopPolling, gpc, pollVars,
                   evictVars, taskVars>>

\* close(stopEvicting); return
DNSCloseEvicting ==
    /\ pc = "closeEvicting"
    /\ stopEvicting' = stopEvicting + 1
    /\ DNSReturn(resolution, Nil)
    /\ UNCHANGED <<worldVars, ctxDone, pods, stopPolling, gpc, pollVars, evictVars,
                   taskVars>>

\* go func() { if err := c.evictPods(...); err != nil { errCh <- err } }()
DNSEvictGoFinish ==
    /\ gpc = "running"
    /\ epc = "returned"
    /\ IF lastErr = Nil
       THEN gpc' = "exit" /\ UNCHANGED sessErrCh
       ELSE IF Len(sessErrCh) < errChCap
       THEN gpc' = "exit" /\ sessErrCh' = Append(sessErrCh, lastErr)
       ELSE gpc' = "sendErr" /\ UNCHANGED sessErrCh
    /\ UNCHANGED <<worldVars, pc, resolution, result, ctxDone, pods, stopEvicting,
                   stopPolling, fatalAtReturn, pollVars, evictVars, taskVars>>

\* the List call of one poll iteration fails: log the error and go to sleep
DNSPollListFails ==
    /\ ppc = "list"
    /\ ppc' = "sleepErr"
    /\ pollOk' = FALSE
    /\ UNCHANGED <<worldVars, mainVars, pollSeen, evictVars, taskVars>>

\* time.Sleep(sleepDuration); continue
DNSPollSleepErr ==
    /\ ppc = "sleepErr"
    /\ ppc' = "list"
    /\ UNCHANGED <<worldVars, mainVars, pollSeen, pollOk, evictVars, taskVars>>

\* the List call succeeds: filterOutPodByNode and count
DNSPollList ==
    /\ ppc = "list"
    /\ pollOk' = TRUE
    /\ IF Len(filterOutPodByNode(DNSListPods, podSpec, NodeName)) = 0
       THEN ppc' = "send" /\ pollSeen' = DNSListPods
       ELSE ppc' = "check" /\ UNCHANGED pollSeen
    /\ UNCHANGED <<worldVars, mainVars, evictVars, taskVars>>

\* select { case <-stopPolling: return; default: time.Sleep(sleepDuration) }
DNSPollCheckStop ==
    /\ ppc = "check"
    /\ ppc' = IF stopPolling > 0 THEN "exit" ELSE "list"
    /\ pollOk' = FALSE
    /\ UNCHANGED <<worldVars, mainVars, pollSeen, evictVars, taskVars>>

----------------------------------------------------------------------------
(* Specifications *)

\* the session is a call of DrainNode / of DrainKubeDNSFromNode
InDrainNode == variant = "general"
InDrainKubeDNS == variant = "kubedns"

Next ==
    \/ InDrainNode /\ MainListFails
    \/ InDrainNode /\ MainList
    \/ InDrainNode /\ MainDrained
    \/ InDrainNode /\ MainTimeout
    \/ InDrainNode /\ MainCancelled
    \/ InDrainNode /\ MainCloseEvicting
    \/ InDrainNode /\ EvictGoFinish
    \/ InDrainNode /\ PollListFails
    \/ InDrainNode /\ PollSleepErr
    \/ InDrainNode /\ PollList
    \/ InDrainNode /\ PollCheckStop
    \/ InDrainKubeDNS /\ DNSListFails
    \/ InDrainKubeDNS /\ DNSList
    \/ InDrainKubeDNS /\ DNSDrained
    \/ InDrainKubeDNS /\ DNSTimeout
    \/ InDrainKubeDNS /\ DNSCancelled
    \/ InDrainKubeDNS /\ DNSCloseEvicting
    \/ InDrainKubeDNS /\ DNSEvictGoFinish
    \/ InDrainKubeDNS /\ DNSPollListFails
    \/ InDrainKubeDNS /\ DNSPollSleepErr
    \/ InDrainKubeDNS /\ DNSPollList
    \/ InDrainKubeDNS /\ DNSPollCheckStop
    \/ CtxCancel
    \/ EvictPodsDispatch
    \/ EvictPodsSelect
    \/ EvictPodsWait
    \/ EvictPodsReturn
    \/ \E pos \in Positions : TaskEvict(pos)
    \/ \E pos \in Positions : TaskBackoff(pos)

Spec == Init /\ [][Next]_vars

----------------------------------------------------------------------------
(* evictPods run on its own: a caller hands it a list of distinct pods and a
   stop channel that the caller may close at any moment *)

\* a ReplicaSet's pod on the node; the first pod of the list is covered by a
\* PodDisruptionBudget
PlainPod(i) ==
    [owners |-> <<"ReplicaSet">>, nodeName |-> NodeName, namespace |-> "default",
     kubeDNS |-> FALSE, pdb |-> (i = 1)]

InitEvict ==
    /\ variant = "general"
    /\ \E n \in 0..MaxListLen :
        /\ podSpec = [i \in 1..n |-> PlainPod(i)]
        /\ InitEvictPods(Ids(n))
    /\ present = DOMAIN podSpec
    /\ nsTerminating \in BOOLEAN
    /\ throttleCount = 0
    /\ fatalCount = 0
    /\ pc = "caller"
    /\ resolution = "none"
    /\ result = Nil
    /\ ctxDone = FALSE
    /\ stopEvicting = 0
    /\ stopPolling = 0
    /\ sessErrCh = <<>>
    /\ gpc = "none"
    /\ ppc = "none"
    /\ pollSeen = <<>>
    /\ pollOk = FALSE
    /\ epc = "loop"
    /\ fatalAtReturn = FALSE

\* the caller closes the stop channel it gave to evictPods
CallerStop ==
    /\ pc = "caller"
    /\ stopEvicting = 0
    /\ stopEvicting' = 1
    /\ UNCHANGED <<worldVars, pc, resolution, result, ctxDone, pods, stopPolling,
                   sessErrCh, gpc, fatalAtReturn, pollVars, evictVars, taskVars>>

NextEvict ==
    \/ CallerStop
    \/ EvictPodsDispatch
    \/ EvictPodsSelect
    \/ EvictPodsWait
    \/ EvictPodsReturn
    \/ \E pos \in Positions : TaskEvict(pos)
    \/ \E pos \in Positions : TaskBackoff(pos)

SpecEvict == InitEvict /\ [][NextEvict]_vars

----------------------------------------------------------------------------
(* The same session under the scheduling the Go runtime gives: every
   goroutine that can take a step eventually takes one, a pending Evict or
   List call eventually returns, and the timer of time.After eventually
   fires. The caller's cancellation is not forced. *)

MainStep ==
    \/ InDrainNode /\ (MainListFails \/ MainList \/ MainDrained \/ MainTimeout
                        \/ MainCancelled \/ MainCloseEvicting)
    \/ InDrainKubeDNS /\ (DNSListFails \/ DNSList \/ DNSDrained \/ DNSTimeout
                           \/ DNSCancelled \/ DNSCloseEvicting)
EvictorStep ==
    \/ InDrainNode /\ EvictGoFinish
    \/ InDrainKubeDNS /\ DNSEvictGoFinish
    \/ EvictPodsDispatch \/ EvictPodsSelect \/ EvictPodsWait \/ EvictPodsReturn
PollStep ==
    \/ InDrainNode /\ (PollListFails \/ PollSleepErr \/ PollList \/ PollCheckStop)
    \/ InDrainKubeDNS /\ (DNSPollListFails \/ DNSPollSleepErr \/ DNSPollList
                           \/ DNSPollCheckStop)
TaskStep(pos) ==
    IF pos \in Positions THEN TaskEvict(pos) \/ TaskBackoff(pos) ELSE FALSE

\* the longest list FilterPods can give in a world of Worlds
MaxTasks == MaxPods * MaxOwners

FairSpec ==
    /\ Init
    /\ [][Next]_vars
    /\ WF_vars(MainStep)
    /\ WF_vars(EvictorStep)
    /\ WF_vars(PollStep)
    /\ \A pos \in 1..MaxTasks : WF_vars(TaskStep(pos))

\* a session in which the timeout does not elapse and ctx is not cancelled
NextNoStop ==
    \/ InDrainNode /\ MainListFails
    \/ InDrainNode /\ MainList
    \/ InDrainNode /\ MainDrained
    \/ InDrainNode /\ EvictGoFinish
    \/ InDrainNode /\ PollListFails
    \/ InDrainNode /\ PollSleepErr
    \/ InDrainNode /\ PollList
    \/ InDrainNode /\ PollCheckStop
    \/ InDrainKubeDNS /\ DNSListFails
    \/ InDrainKubeDNS /\ DNSList
    \/ InDrainKubeDNS /\ DNSDrained
    \/ InDrainKubeDNS /\ DNSEvictGoFinish
    \/ InDrainKubeDNS /\ DNSPollListFails
    \/ InDrainKubeDNS /\ DNSPollSleepErr
    \/ InDrainKubeDNS /\ DNSPollList
    \/ InDrainKubeDNS /\ DNSPollCheckStop
    \/ EvictPodsDispatch
    \/ EvictPodsSelect
    \/ EvictPodsWait
    \/ EvictPodsReturn
    \/ \E pos \in Positions : TaskEvict(pos)
    \/ \E pos \in Positions : TaskBackoff(pos)

\* the poller's List call succeeds
PollListOk == (InDrainNode /\ PollList) \/ (InDrainKubeDNS /\ DNSPollList)

\* fair scheduling of the goroutines, and a List call that does not fail
\* for ever
FairSpecNoStop ==
    /\ Init
    /\ [][NextNoStop]_vars
    /\ WF_vars(MainStep /\ NextNoStop)
    /\ WF_vars(EvictorStep)
    /\ WF_vars(PollStep)
    /\ SF_vars(PollListOk)
    /\ \A pos \in 1..MaxTasks : WF_vars(TaskStep(pos))

----------------------------------------------------------------------------
(* Claims *)

HasOwnerKind(p, kind) ==
    \E k \in 1..Len(podSpec[p].owners) : podSpec[p].owners[k] = kind

\* the evictPod task of list position i has been started and has not finished
Outstanding(i) == taskPc[i] \in {"run", "backoff", "sendErr"}

\* C1: when the Evict call of some target pod has returned an other-error
\* answer during a DrainNode session, the error DrainNode returns is non-nil
\* and is that eviction failure, whatever resolution ended the session.
C1_FatalErrorSurfaced ==
    (variant = "general" /\ pc = "returned" /\ fatalAtReturn)
        => (result # Nil /\ result.kind = "evict")

\* C2: in a DrainNode session no Evict call is ever issued for a pod that
\* has an owner reference of kind DaemonSet.
C2_NoDaemonSetPodEvicted ==
    variant = "general"
        => \A i \in Positions : calls[i] > 0 => ~HasOwnerKind(pods[i], "DaemonSet")

\* C3: at every moment at most one evictPod task per pod is outstanding.
C3_OneTaskPerPod ==
    \A i, j \in Positions :
        (i # j /\ pods[i] = pods[j]) => ~(Outstanding(i) /\ Outstanding(j))

\* C4: when DrainNode returns through the drained branch, the poll that
\* signalled it saw no pod on the node outside kube-system other than pods
\* owned by a DaemonSet.
C4_DrainedMeansNodeEmpty ==
    (variant = "general" /\ resolution = "drained")
        => \A k \in 1..Len(pollSeen) : HasOwnerKind(pollSeen[k], "DaemonSet")

\* the pods the session's listing and filter would still give
Pending == FilterPods(ListPods)

\* C5: a drain session resolved by timeout or by cancellation while no
\* eviction has reported an other-error answer returns a nil error, in both
\* variants, also when target pods are still pending.
C5_SoftStopReturnsNil ==
    (pc = "returned" /\ resolution \in {"timeout", "cancelled"} /\ ~fatalAtReturn)
        => result = Nil

\* a DrainKubeDNSFromNode session was cancelled with a target pod pending
C5_Witness ==
    /\ variant = "kubedns"
    /\ pc = "returned"
    /\ resolution = "cancelled"
    /\ ~fatalAtReturn
    /\ Len(Pending) > 0

\* C6: no stop channel, of the session or of a pod, is ever closed twice; a
\* session resolved by timeout or cancellation has closed stopPolling and
\* stopEvicting exactly once each when it returns; a session resolved as
\* drained has closed neither.
C6_StopSignalsOnce ==
    /\ stopPolling <= 1
    /\ stopEvicting <= 1
    /\ \A i \in Positions : stopChs[i] <= 1
    /\ (pc = "returned" /\ resolution \in {"timeout", "cancelled"})
            => (stopPolling = 1 /\ stopEvicting = 1)
    /\ resolution = "drained" => (stopPolling = 0 /\ stopEvicting = 0)

\* a session returned by timeout while cancellation and the drained signal
\* were ready too, and evictPods has closed a per-pod stop channel
C6_Witness ==
    /\ pc = "returned"
    /\ resolution = "timeout"
    /\ ctxDone
    /\ ppc = "send"
    /\ \E i \in Positions : stopChs[i] = 1

Last(q) == q[Len(q)]
AllThrottled(q) == \A k \in 1..Len(q) : q[k] = "throttled"
Front(q) == SubSeq(q, 1, Len(q) - 1)

\* C10: an evictPod whose stop channel is not closed and whose Evict calls
\* were answered too-many-requests N times and then with success has made
\* exactly N+1 calls, has slept the 5-second backoff before each call but the
\* first, and returns nil; while the last answer is too-many-requests it has
\* not returned; and it returns an error only on an other-error answer.
C10_ThrottleRetry ==
    \A i \in Positions :
        /\ (stopChs[i] = 0 /\ answers[i] # <<>> /\ Last(answers[i]) = "throttled")
                => taskPc[i] \in {"backoff", "run"}
        /\ (stopChs[i] = 0 /\ answers[i] # <<>> /\ Last(answers[i]) = "ok")
                => /\ AllThrottled(Front(answers[i]))
                   /\ calls[i] = Len(answers[i])
                   /\ slept[i] = BackoffSeconds * (calls[i] - 1)
                   /\ taskPc[i] = "done"
                   /\ taskOutcome[i] = "evicted"
        /\ (taskPc[i] = "run" /\ stopChs[i] = 0) => slept[i] = BackoffSeconds * calls[i]
        /\ taskOutcome[i] = "fatal" => Last(answers[i]) = "fatal"

\* a task was throttled twice, slept twice, called a third time and evicted
\* its pod
C10_Witness ==
    \E i \in Positions :
        /\ answers[i] = <<"throttled", "throttled", "ok">>
        /\ calls[i] = 3
        /\ slept[i] = 2 * BackoffSeconds
        /\ taskOutcome[i] = "evicted"
        /\ stopChs[i] = 0

\* C7: no evictPod task of a later batch is started while a task of an
\* earlier batch has not finished.
C7_BatchesSequential ==
    \A i, j \in Positions :
        (taskBatch[i] > 0 /\ taskBatch[i] < taskBatch[j]) => taskPc[i] = "done"

\* a task of the second batch runs after a task of the first batch was
\* throttled, slept and retried
C7_Witness ==
    \E i, j \in Positions :
        /\ taskBatch[i] = 1
        /\ calls[i] = 2
        /\ taskBatch[j] = 2
        /\ taskPc[j] = "run"

\* a step of evictPods or of one of its tasks
EvictProgress ==
    \/ EvictPodsDispatch
    \/ EvictPodsSelect
    \/ EvictPodsWait
    \/ EvictPodsReturn
    \/ \E pos \in Positions : TaskEvict(pos)
    \/ \E pos \in Positions : TaskBackoff(pos)

\* C8: when the stop signal never fires, evictPods dispatches exactly
\* ceil(n/10) batches of consecutive slices of at most 10 pods, so that list
\* position i is dispatched in batch ceil(i/10), whatever answers the pods
\* receive: once evictPods and its tasks can take no further step, with the
\* stop channel still open, all of that has happened.
C8_AllBatchesDispatched ==
    (stopEvicting = 0 /\ ~ENABLED EvictProgress)
        => /\ batchNo = CeilDiv(Len(pods), podsPerBatch)
           /\ \A i \in Positions : taskBatch[i] = CeilDiv(i, podsPerBatch)

\* C9: when the stop signal fires while a batch is outstanding, the per-pod
\* stop channels of that batch get closed and evictPods returns (runs in
\* which an Evict call gets an other-error answer are left aside: there the
\* task never finishes for another reason).
C9_StopInterruptsBatch ==
    (stopEvicting > 0 /\ epc = "wait" /\ wg > 0)
        ~> \/ /\ epc = "returned"
              /\ \A i \in Positions : taskBatch[i] = batchNo => stopChs[i] > 0
           \/ FatalSeen

StopsLoop == {"ok", "notfound", "terminating"}

\* C11: evictPod calls Evict again only after a too-many-requests answer: a
\* success, a not-found or a forbidden-because-terminating answer ends the
\* task with a nil result and no further call (a not-found first answer
\* means exactly one call), and an other-error answer ends the calls at once
\* with that very error, unwrapped, as the task's result.
C11_RetryOnlyOnThrottle ==
    \A i \in Positions :
        /\ AllThrottled(Front(answers[i]))
        /\ calls[i] = Len(answers[i])
        /\ (answers[i] # <<>> /\ Last(answers[i]) \in StopsLoop)
                => /\ taskPc[i] = "done"
                   /\ taskRet[i] = Nil
                   /\ taskOutcome[i] \in {"evicted", "gone", "blocked"}
        /\ (answers[i] # <<>> /\ Head(answers[i]) = "notfound") => calls[i] = 1
        /\ (answers[i] # <<>> /\ Last(answers[i]) = "fatal")
                => /\ taskPc[i] \in {"done", "sendErr"}
                   /\ taskRet[i] = EvictErr(i)
                   /\ taskOutcome[i] = "fatal"
        /\ taskRet[i] # Nil => (answers[i] # <<>> /\ Last(answers[i]) = "fatal")

\* one task ended on a not-found first answer after a single call while
\* another ended on an other-error answer and returned that error
C11_Witness ==
    \E i, j \in Positions :
        /\ answers[i] = <<"notfound">>
        /\ calls[i] = 1
        /\ taskPc[i] = "done"
        /\ taskRet[i] = Nil
        /\ answers[j] # <<>>
        /\ Last(answers[j]) = "fatal"
        /\ taskRet[j] = EvictErr(j)

\* the initial listing succeeded and the two goroutines were started
Started == gpc # "none"

\* C12: in a session whose filtered target list is empty no Evict call is
\* ever made and no batch is dispatched; every poll whose listing succeeds
\* finds nothing pending and signals drained at once, so the poller never
\* sleeps on pending pods; the drained branch can be taken as soon as the
\* poller signals, before any timeout; and the call returns nil.
C12_EmptyTargetSet ==
    (Started /\ pods = <<>>) =>
        /\ present = DOMAIN podSpec
        /\ throttleCount = 0 /\ fatalCount = 0
        /\ batchNo = 0
        /\ ppc # "check"
        /\ (pollOk => ppc \in {"send", "exit"})
        /\ ((pc = "select" /\ ppc = "send") => ENABLED MainDrained)
        /\ (ppc = "exit" => resolution = "drained")
        /\ (pc = "returned" => result = Nil)

\* the node holds pods, none of them a target (DaemonSet pods only); the
\* first poll signalled drained and the call returned nil with no timeout
\* and no cancellation
C12_Witness ==
    /\ Started
    /\ variant = "general"
    /\ ListPods # <<>>
    /\ pods = <<>>
    /\ pc = "returned"
    /\ resolution = "drained"
    /\ result = Nil
    /\ stopPolling = 0
    /\ ~ctxDone
    /\ epc = "returned"

\* the step is a step of action A exactly when it is a step of action B
SameStep(A, B) == A <=> B

\* in the current state the orchestration of DrainNode, given the listing and
\* the filter of the kube-dns variant, can take the steps that
\* DrainKubeDNSFromNode can take
SameEnabled ==
    /\ (ENABLED DNSListFails) <=> (ENABLED MainListFails)
    /\ (ENABLED DNSList) <=> (ENABLED MainList)
    /\ (ENABLED DNSDrained) <=> (ENABLED MainDrained)
    /\ (ENABLED DNSTimeout) <=> (ENABLED MainTimeout)
    /\ (ENABLED DNSCancelled) <=> (ENABLED MainCancelled)
    /\ (ENABLED DNSCloseEvicting) <=> (ENABLED MainCloseEvicting)
    /\ (ENABLED DNSEvictGoFinish) <=> (ENABLED EvictGoFinish)
    /\ (ENABLED DNSPollListFails) <=> (ENABLED PollListFails)
    /\ (ENABLED DNSPollSleepErr) <=> (ENABLED PollSleepErr)
    /\ (ENABLED DNSPollList) <=> (ENABLED PollList)
    /\ (ENABLED DNSPollCheckStop) <=> (ENABLED PollCheckStop)

\* the step taken is a step of an action of DrainKubeDNSFromNode exactly
\* when it is a step of the matching action of DrainNode: same eviction
\* list, same goroutines started, same stop channels closed, same result
SameSteps ==
    /\ SameStep(DNSListFails, MainListFails)
    /\ SameStep(DNSList, MainList)
    /\ SameStep(DNSDrained, MainDrained)
    /\ SameStep(DNSTimeout, MainTimeout)
    /\ SameStep(DNSCancelled, MainCancelled)
    /\ SameStep(DNSCloseEvicting, MainCloseEvicting)
    /\ SameStep(DNSEvictGoFinish, EvictGoFinish)
    /\ SameStep(DNSPollListFails, PollListFails)
    /\ SameStep(DNSPollSleepErr, PollSleepErr)
    /\ SameStep(DNSPollList, PollList)
    /\ SameStep(DNSPollCheckStop, PollCheckStop)

\* C19: DrainKubeDNSFromNode runs the orchestration of DrainNode: in every
\* state of a kube-dns session each of its actions is enabled exactly when
\* DrainNode's matching action, fed with the kube-dns listing and filter, is
\* enabled, and every step it takes is the step DrainNode's action takes
\* (same target list handed to evictPods, same stop channels closed, same
\* resolution and result); the eviction pipeline is shared code.
C19_SameOrchestration ==
    /\ [](InDrainKubeDNS => SameEnabled)
    /\ [][InDrainKubeDNS => SameSteps]_vars

\* a kube-dns session evicted a pod, then timed out, closed both stop
\* channels and returned
C19_Witness ==
    /\ InDrainKubeDNS
    /\ pc = "returned"
    /\ resolution = "timeout"
    /\ stopEvicting = 1
    /\ stopPolling = 1
    /\ \E i \in Positions : taskOutcome[i] = "evicted"

\* every target pod is owned by no DaemonSet and every eviction task has
\* finished with its pod evicted (or found already gone) and removed
AllEvicted ==
    /\ Started
    /\ pods # <<>>
    /\ \A i \in Positions :
        /\ ~HasOwnerKind(pods[i], "DaemonSet")
        /\ taskPc[i] = "done"
        /\ taskOutcome[i] \in {"evicted", "gone"}
        /\ pods[i] \notin present

\* C13: in a session where neither the timeout nor the cancellation fires,
\* once every target pod (none DaemonSet-owned) has been evicted and is
\* gone, the poller's next successful listing finds nothing pending and the
\* call eventually returns nil through the drained resolution.
C13_DrainedAfterEvictions ==
    AllEvicted ~> (pc = "returned" /\ resolution = "drained" /\ result = Nil)

\* two target pods were evicted, one after a throttled first call, the
\* poller had found pods pending before, and the call returned nil through
\* the drained resolution
C13_Witness ==
    /\ AllEvicted
    /\ Len(pods) >= 2
    /\ \E i \in Positions : answers[i] = <<"throttled", "ok">>
    /\ pc = "returned"
    /\ resolution = "drained"
    /\ result = Nil
    /\ stopPolling = 0

Resolutions == {"drained", "timeout", "cancelled"}

\* C14: once the initial listing has succeeded the call eventually returns
\* (the timeout branch of the select stays ready until main moves on),
\* whatever the evicting and polling goroutines do; it returns through one
\* of the drained, timeout and cancelled resolutions, and the resolution,
\* once taken, never changes.
C14_AlwaysReturns ==
    /\ (pc = "select") ~> (pc = "returned")
    /\ []((Started /\ pc = "returned") => resolution \in Resolutions)
    /\ [][resolution # "none" => resolution' = resolution]_vars
    /\ [][pc = "returned" => pc' = "returned"]_vars

\* the call returned by timeout while evictPods was blocked at its barrier
\* behind a task that can never finish
C14_Witness ==
    /\ pc = "returned"
    /\ resolution = "timeout"
    /\ epc = "wait"
    /\ \E i \in Positions : taskPc[i] = "sendErr"

\* C15: once stopPolling has been closed by the timeout or the cancel
\* branch, the polling goroutine eventually exits, whatever its listings
\* return; it does not stay blocked on the drained signal or poll for ever.
C15_PollerExitsAfterStop == (stopPolling > 0) ~> (ppc = "exit")

\* number of places of the sequence q that hold x
Occurrences(q, x) == Cardinality({k \in 1..Len(q) : q[k] = x})
\* the place of x in the duplicate-free sequence q
IndexOf(q, x) == CHOOSE k \in 1..Len(q) : q[k] = x
Reverse(q) == [k \in 1..Len(q) |-> q[Len(q) + 1 - k]]
\* owner references of pod p whose kind is not kind
OtherOwners(p, kind) ==
    {k \in 1..Len(podSpec[p].owners) : podSpec[p].owners[k] # kind}

\* out is what the claim says the filter gives for the listing input
FilterAsClaimed(input, out, kind) ==
    /\ \A p \in DOMAIN podSpec :
        /\ Occurrences(out, p) = Cardinality(OtherOwners(p, kind))
        /\ podSpec[p].owners = <<>> => Occurrences(out, p) = 0
        /\ podSpec[p].owners = <<kind>> => Occurrences(out, p) = 0
    /\ \A a, b \in 1..Len(out) :
        a < b => IndexOf(input, out[a]) <= IndexOf(input, out[b])

\* C16: filterOutPodByOwnerReferenceKind returns, in the order of its input,
\* each pod once per owner reference whose kind differs from the excluded
\* kind: a pod without owner references and a pod whose single reference
\* is of the excluded kind are absent. Checked for each kind on the pods of
\* the cluster listed in both orders, and on the list a DrainNode session
\* hands to evictPods.
C16_FilterByOwnerKind ==
    /\ \A kind \in OwnerKinds :
        \A input \in {Ids(Len(podSpec)), Reverse(Ids(Len(podSpec)))} :
            FilterAsClaimed(input,
                            filterOutPodByOwnerReferenceKind(input, podSpec, kind),
                            kind)
    /\ (InDrainNode /\ Started) =>
        /\ \A p \in DOMAIN podSpec :
            Occurrences(pods, p) =
                IF FieldSelected(p) THEN Cardinality(OtherOwners(p, "DaemonSet"))
                ELSE 0
        /\ \A a, b \in Positions : a < b => pods[a] <= pods[b]

\* the node holds a pod with two owner references of other kinds, listed
\* twice, next to a DaemonSet pod that was filtered out
C16_Witness ==
    /\ InDrainNode
    /\ Started
    /\ Len(pods) = 2
    /\ pods[1] = pods[2]
    /\ \E p \in DOMAIN podSpec : podSpec[p].owners = <<"DaemonSet">>

\* C17: when an evictPod task has received an other-error answer, evictPods
\* eventually returns and its result is a non-nil error.
C17_FatalErrorReturned ==
    FatalSeen ~> (epc = "returned" /\ lastErr # Nil)

\* evictPods and its tasks can take no further step
EvictQuiescent == ~ENABLED (EvictProgress)

\* C18: an other-error answer ends only the task that received it: with the
\* stop channel open, evictPods comes to rest only when every task of every
\* batch has been dispatched and has finished and evictPods has returned.
C18_FatalTaskDoesNotBlock ==
    (EvictQuiescent /\ stopEvicting = 0) =>
        /\ epc = "returned"
        /\ \A i \in Positions : taskPc[i] = "done"

\* C20: a failed listing is never taken for "no pods pending": the poller
\* is at its drained signal, and the call returns through drained, only in
\* an iteration whose List call succeeded and whose filtered listing was
\* empty; after a failed List call it sleeps. When the initial List call
\* fails the call returns that error, no goroutine has been started and no
\* Evict call has been made.
C20_ListErrorNotDrained ==
    /\ ppc = "send" => (pollOk /\ Len(FilterPods(pollSeen)) = 0)
    /\ resolution = "drained" => (pollOk /\ Len(FilterPods(pollSeen)) = 0)
    /\ ppc = "sleepErr" => ~pollOk
    /\ resolution = "listError" =>
        /\ pc = "returned"
        /\ result = ListErr
        /\ ~Started
        /\ ppc = "none"
        /\ epc = "idle"
        /\ batchNo = 0
        /\ present = DOMAIN podSpec
        /\ throttleCount = 0 /\ fatalCount = 0

\* every target pod has been evicted, so that nothing is pending, and the
\* poller, whose List call failed, sleeps instead of signalling drained
C20_Witness ==
    /\ Started
    /\ pods # <<>>
    /\ Len(Pending) = 0
    /\ pc = "select"
    /\ ppc = "sleepErr"
    /\ ~pollOk

============================================================================
